---- MODULE Spec2Model ----
(***************************************************************************)
(* A model of the votee application's ballot core:                         *)
(*   - the redemption ledger (votee/models.py, use_ballot) run by          *)
(*     concurrent request handlers against one database,                   *)
(*   - the same function run as a sequence of whole calls,                 *)
(*   - the token scheme (votee/crypto.py) and the poll's use of it,        *)
(*   - the election's admin key, lists of ballots and rejected keys,       *)
(*   - the voting and admin requests of votee/views.py run together.       *)
(***************************************************************************)
EXTENDS Integers, Sequences, FiniteSets, TLC

\* ------------------------------------------------------------------ bounds

\* Number of request handlers that call use_ballot concurrently.
NProcs == 2
\* Ballot indices 0..MaxIndex are redeemed.
MaxIndex == 1
\* Longest selected_options list (the poll's votes_per_ballot).
MaxVotes == 2
\* Number of whole use_ballot calls of a sequential history.
MaxCalls == 4

\* Plaintexts 0..MaxPlain are encrypted, beside the ones at byte boundaries.
MaxPlain == 3
\* number_of_ballots takes the values 0..MaxBallots; tokens are issued for the
\* indices 0..MaxBallots, so that one index is never below the bound.
MaxBallots == 2
\* Number of validate_ballot calls followed for one token.
MaxValidations == 3

\* PollOption rows get the ids 1..MaxOptionId: the admin form adds options
\* as long as an id is left.
MaxOptionId == 3
\* Number of admin forms saved while the voting requests run.
MaxEdits == 1

Procs == 1..NProcs
Indices == 0..MaxIndex
\* The ids of the PollOption rows of the poll (tests.py creates opt1 and opt2).
PollOptions == {1, 2}
\* The lists of options a caller can pass, repeated options included.
\* use_ballot reads the list only through id__in, where the order of the ids
\* plays no part, so each list is taken once, in ascending order.
OptionLists ==
    UNION {{s \in [1..k -> PollOptions] : \A j \in 1..(k - 1) : s[j] <= s[j + 1]}
            : k \in 0..MaxVotes}

\* What a call returns (Python's True, False, None) or raises.
True == "True"
False == "False"
None == "None"
IntegrityError == "IntegrityError"
DatabaseError == "DatabaseError"

Range(s) == {s[k] : k \in DOMAIN s}
PairwiseDistinct(s) == \A j, k \in DOMAIN s : j # k => s[j] # s[k]

VARIABLES
    UsedBallot,   \* committed UsedBallot rows of the poll: ballot_index -> number of rows
    count,        \* committed PollOption.count: option -> integer
    pc,           \* handler -> its position in use_ballot
    arg,          \* handler -> the (i, options) of its call
    ret,          \* handler -> what its call returned or raised
    log,          \* the calls of a sequential history, in order, with their results
    secret,       \* the secret argument of encrypt_int and decrypt_int
    ct,           \* the 16-byte value (or other bytes) at hand, with where it came from
    result,       \* the last decrypt_int call on ct: its valid_values and what it returned
    key,          \* the token string at hand, with the bytes it encodes when urlencode made it
    decoded,      \* what the last urldecode call on key returned
    ballot_secret,      \* Poll.ballot_secret
    number_of_ballots,  \* Poll.number_of_ballots
    issued,       \* the tokens handed out by get_ballots: index -> token and bound at issue
    validations,  \* the validate_ballot calls made on issued tokens, in order
    admin_secret, \* Election.admin_secret
    admin_key,    \* the string presented as admin key, and whether get_admin_key made it
    admin_valid,  \* what the last validate_admin_key call on admin_key returned
    ballots,      \* the last get_ballots call: its range, the bound it met, its list
    probes,       \* the last two validate_ballot calls on presented strings
    accepting_votes,   \* Poll.settings["accepting_votes"]
    votes_per_ballot,  \* Poll.settings["votes_per_ballot"]
    option_name,  \* PollOption.name of the poll's options: id -> "" (blank) or a name
    next_id,      \* the id the next inserted PollOption gets
    view,         \* voting request -> what PollDetail.get_form left on the view object
    response,     \* voting request -> the response sent
    admin,        \* the admin request: its position and what get_form left on the view
    edits         \* the admin forms saved so far

ledgerVars == <<UsedBallot, count, pc, arg, ret, log>>
cryptoVars == <<secret, ct, result, key, decoded>>
pollVars == <<ballot_secret, number_of_ballots, issued, validations>>
tokenVars == <<admin_secret, admin_key, admin_valid, ballots, probes>>
appVars == <<accepting_votes, votes_per_ballot, option_name, next_id, view, response, admin, edits>>
vars == <<ledgerVars, cryptoVars, pollVars, tokenVars, appVars>>

\* ------------------------------------------------ votee/crypto.py: the codec

\* Optional[...]: None is the empty tuple, a value x is <<x>>.
NoValue == <<>>
Some(x) == <<x>>

\* A bytes value is a sequence of integers 0..255; a str is a sequence of
\* one-character strings.
ByteMod == 256
BlockLen == 16
TokenLen == 22

\* The URL-safe base64 alphabet: the character of each 6-bit value, from 0.
B64Alphabet ==
    << "A", "B", "C", "D", "E", "F", "G", "H", "I", "J", "K", "L", "M",
       "N", "O", "P", "Q", "R", "S", "T", "U", "V", "W", "X", "Y", "Z",
       "a", "b", "c", "d", "e", "f", "g", "h", "i", "j", "k", "l", "m",
       "n", "o", "p", "q", "r", "s", "t", "u", "v", "w", "x", "y", "z",
       "0", "1", "2", "3", "4", "5", "6", "7", "8", "9", "-", "_" >>

\* The standard base64 alphabet, which ends in "+" and "/".
B64StandardAlphabet ==
    [v \in 1..64 |-> IF v = 63 THEN "+" ELSE IF v = 64 THEN "/" ELSE B64Alphabet[v]]

\* The character class [a-zA-Z0-9_-] of the two regular expressions.
TokenChars == Range(B64Alphabet)

B64Char(alphabet, v) == alphabet[v + 1]
B64Value(c) == CHOOSE v \in 0..63 : B64Alphabet[v + 1] = c

\* base64 encoding of bytes b with the given alphabet: 3 bytes give 4
\* characters; a last group of 1 or 2 bytes is padded with "=".
RECURSIVE B64Encode(_, _)
B64Encode(alphabet, b) ==
    IF Len(b) = 0 THEN <<>>
    ELSE IF Len(b) = 1 THEN
        << B64Char(alphabet, b[1] \div 4),
           B64Char(alphabet, (b[1] % 4) * 16), "=", "=" >>
    ELSE IF Len(b) = 2 THEN
        << B64Char(alphabet, b[1] \div 4),
           B64Char(alphabet, (b[1] % 4) * 16 + b[2] \div 16),
           B64Char(alphabet, (b[2] % 16) * 4), "=" >>
    ELSE
        << B64Char(alphabet, b[1] \div 4),
           B64Char(alphabet, (b[1] % 4) * 16 + b[2] \div 16),
           B64Char(alphabet, (b[2] % 16) * 4 + b[3] \div 64),
           B64Char(alphabet, b[3] % 64) >>
        \o B64Encode(alphabet, SubSeq(b, 4, Len(b)))

urlsafe_b64encode(b) == B64Encode(B64Alphabet, b)

\* base64.urlsafe_b64decode of a string of alphabet characters closed by its
\* padding, four characters at a time. The bits of the last character that
\* fall outside the last byte are dropped, whatever they are.
RECURSIVE urlsafe_b64decode(_)
urlsafe_b64decode(s) ==
    IF Len(s) < 4 THEN <<>>
    ELSE LET v1 == B64Value(s[1])
             v2 == B64Value(s[2])
         IN IF s[3] = "=" THEN
                << v1 * 4 + v2 \div 16 >>
            ELSE IF s[4] = "=" THEN
                << v1 * 4 + v2 \div 16,
                   (v2 % 16) * 16 + B64Value(s[3]) \div 4 >>
            ELSE
                << v1 * 4 + v2 \div 16,
                   (v2 % 16) * 16 + B64Value(s[3]) \div 4,
                   (B64Value(s[3]) % 4) * 64 + B64Value(s[4]) >>
                \o urlsafe_b64decode(SubSeq(s, 5, Len(s)))

\* encoded.rpartition("==")[0]: what precedes the last "==" of s, and the
\* empty string when s holds none.
RPartitionHead(s) ==
    LET at == {k \in 1..(Len(s) - 1) : s[k] = "=" /\ s[k + 1] = "="}
    IN IF at = {} THEN <<>>
       ELSE SubSeq(s, 1, (CHOOSE k \in at : \A j \in at : j <= k) - 1)

\* urlencode with b64encode in place of urlsafe_b64encode.
urlencode_standard(b) == RPartitionHead(B64Encode(B64StandardAlphabet, b))

\* urlencode(key), for the 16-byte keys its assertions admit.
urlencode(b) == RPartitionHead(urlsafe_b64encode(b))

\* urldecode refusing a last character whose four low bits are not zero.
urldecode_strict(k) ==
    IF Len(k) # TokenLen THEN NoValue
    ELSE IF \E j \in 1..Len(k) : k[j] \notin TokenChars THEN NoValue
    ELSE IF B64Value(k[TokenLen]) % 16 # 0 THEN NoValue
    ELSE Some(urlsafe_b64decode(k \o <<"=", "=">>))

\* urldecode without its length test.
urldecode_any_length(k) ==
    IF \E j \in 1..Len(k) : k[j] \notin TokenChars THEN NoValue
    ELSE Some(urlsafe_b64decode(k \o <<"=", "=">>))

\* urldecode(key)
urldecode(k) ==
    IF Len(k) # TokenLen THEN NoValue
    ELSE IF \E j \in 1..Len(k) : k[j] \notin TokenChars THEN NoValue
    ELSE Some(urlsafe_b64decode(k \o <<"=", "=">>))

\* ------------------------------------- votee/crypto.py: the permutation

\* struct.pack("<I", n): the four bytes of n, least significant first.
PackWord(n) ==
    << n % ByteMod, (n \div ByteMod) % ByteMod,
       (n \div (ByteMod * ByteMod)) % ByteMod,
       (n \div (ByteMod * ByteMod * ByteMod)) % ByteMod >>

\* struct.pack("<IIII", a, b, c, d)
Pack4(a, b, c, d) == PackWord(a) \o PackWord(b) \o PackWord(c) \o PackWord(d)

\* The k-th word (1..4) of a 16-byte block, as its four bytes.
WordBytes(pt, k) == SubSeq(pt, 4 * k - 3, 4 * k)
\* The unsigned value of a word whose top byte is below 128.
WordValue(w) ==
    w[1] + ByteMod * w[2] + ByteMod * ByteMod * w[3]
    + ByteMod * ByteMod * ByteMod * w[4]
\* a >= valid_values for the unpacked word a. valid_values is below 2^31 (an
\* IntegerField, or the literal 1), so a word with its top bit set is above it.
WordAtLeast(w, v) == IF w[4] >= 128 THEN TRUE ELSE WordValue(w) >= v
WordIsZero(w) == \A j \in 1..4 : w[j] = 0

\* AES.new(secret, AES.MODE_ECB): one keyed permutation of the 16-byte blocks
\* and its inverse. The cipher's rounds are the library's; kept here is what
\* the callers rely on: for each 16-byte key, encrypt is a bijection of the
\* blocks, decrypt is its inverse, and different keys give different
\* bijections. The bytes are moved to other positions and the key is added.
AESPosition(j) == ((5 * (j - 1)) % BlockLen) + 1
AESPositionInverse(j) == ((13 * (j - 1)) % BlockLen) + 1
AESEncrypt(k, pt) ==
    [j \in 1..BlockLen |-> (pt[AESPosition(j)] + k[j]) % ByteMod]
AESDecrypt(k, c) ==
    [j \in 1..BlockLen |->
        (c[AESPositionInverse(j)] - k[AESPositionInverse(j)]) % ByteMod]

\* encrypt_int packing the plaintext into 16 bits.
encrypt_int_16_bits(s, plaintext) == AESEncrypt(s, Pack4(plaintext % 65536, 0, 0, 0))

\* encrypt_int(secret, plaintext), for 0 <= plaintext < 2^32.
encrypt_int(s, plaintext) == AESEncrypt(s, Pack4(plaintext, 0, 0, 0))

\* decrypt_int with "a > valid_values" for "a >= valid_values".
decrypt_int_inclusive(s, c, valid_values) ==
    IF Len(c) # BlockLen THEN NoValue
    ELSE LET pt == AESDecrypt(s, c)
             a == WordBytes(pt, 1)
         IN IF (a[4] >= 128 \/ WordValue(a) > valid_values)
               \/ ~(WordIsZero(WordBytes(pt, 2)) /\ WordIsZero(WordBytes(pt, 3))
                    /\ WordIsZero(WordBytes(pt, 4)))
            THEN NoValue
            ELSE Some(WordValue(a))

\* decrypt_int testing b == c == 0 only.
decrypt_int_ignores_d(s, c, valid_values) ==
    IF Len(c) # BlockLen THEN NoValue
    ELSE LET pt == AESDecrypt(s, c)
             a == WordBytes(pt, 1)
         IN IF WordAtLeast(a, valid_values)
               \/ ~(WordIsZero(WordBytes(pt, 2)) /\ WordIsZero(WordBytes(pt, 3)))
            THEN NoValue
            ELSE Some(WordValue(a))

\* decrypt_int(secret, ct, valid_values)
decrypt_int(s, c, valid_values) ==
    IF Len(c) # BlockLen THEN NoValue
    ELSE LET pt == AESDecrypt(s, c)
             a == WordBytes(pt, 1)
         IN IF WordAtLeast(a, valid_values)
               \/ ~(WordIsZero(WordBytes(pt, 2)) /\ WordIsZero(WordBytes(pt, 3))
                    /\ WordIsZero(WordBytes(pt, 4)))
            THEN NoValue
            ELSE Some(WordValue(a))

NoArg == [i |-> 0, options |-> <<>>]

\* ------------------------------------------------------- the database

\* The existence check left out.
ExistsUsedSkipped(i) == FALSE

\* The existence check joined with a range check against the poll's bound.
ExistsUsedOrBeyondBound(i) == UsedBallot[i] > 0 \/ i >= number_of_ballots

\* UsedBallot.objects.filter(poll=p, ballot_index=i).exists()
ExistsUsed(i) == UsedBallot[i] > 0

\* The table without its unique index.
UniqueViolationNever(i) == FALSE

\* unique_together (poll, ballot_index): an INSERT of a committed pair is refused.
UniqueViolation(i) == UsedBallot[i] > 0

\* UsedBallot.objects.create(poll=p, ballot_index=i), as committed.
InsertUsed(rows, i) == [rows EXCEPT ![i] = @ + 1]

\* The increment computed in Python from the count read when the options
\* were loaded (0 for a new poll) and written back.
QsUpdateStaleRead(cnt, options) ==
    [o \in DOMAIN cnt |-> IF o \in Range(options) THEN 1 ELSE cnt[o]]

\* The UPDATE without its WHERE clause.
QsUpdateEveryRow(cnt, options) == [o \in DOMAIN cnt |-> cnt[o] + 1]

\* qs = PollOption.objects.filter(id__in=[o.id for o in options]);
\* qs.update(count=F("count") + 1): one UPDATE ... WHERE id IN (...), so every
\* row whose id is in the list is incremented once.
QsUpdate(cnt, options) ==
    [o \in DOMAIN cnt |-> IF o \in Range(options) THEN cnt[o] + 1 ELSE cnt[o]]

\* An INSERT that does not wait for an uncommitted row of the same pair.
HoldsIndexNever(q, i) == FALSE

\* Handlers inside transaction.atomic() that hold the uncommitted row (poll, i).
HoldsIndex(q, i) == pc[q] \in {"created", "updated"} /\ arg[q].i = i
\* Handlers whose uncommitted UPDATE holds the row lock of option o.
HoldsOption(q, o) == pc[q] = "updated" /\ o \in Range(arg[q].options)

\* The 16-byte secrets rand128() may have drawn.
SecretA == [j \in 1..BlockLen |-> (37 * j) % ByteMod]
SecretB == [j \in 1..BlockLen |-> (255 - 11 * j) % ByteMod]
Secrets == {SecretA, SecretB}

\* A new poll with its options, nothing redeemed, no call running.
LedgerInit ==
    /\ UsedBallot = [i \in Indices |-> 0]
    /\ count = [o \in PollOptions |-> 0]
    /\ pc = [p \in Procs |-> "idle"]
    /\ arg = [p \in Procs |-> NoArg]
    /\ ret = [p \in Procs |-> None]
    /\ log = <<>>

NoCt == [bytes |-> <<>>, n |-> -1]
NoResult == [called |-> FALSE, valid_values |-> 0, r |-> NoValue]
NoKey == [str |-> <<>>, of |-> NoValue]
NoDecoded == [called |-> FALSE, r |-> NoValue]

\* No bytes and no token at hand, no call made.
CryptoInit ==
    /\ ct = NoCt
    /\ result = NoResult
    /\ key = NoKey
    /\ decoded = NoDecoded

NoValidations == [i |-> 0, calls |-> <<>>]

\* Poll.number_of_ballots has default 0; no token handed out yet.
PollInit ==
    /\ number_of_ballots = 0
    /\ issued = [i \in {} |-> <<>>]
    /\ validations = NoValidations

NoAdminKey == [str |-> <<>>, own |-> FALSE]
NoAdminValid == [called |-> FALSE, r |-> FALSE]
NoBallots == [called |-> FALSE, lo |-> 0, hi |-> 0, bound |-> 0, tokens |-> <<>>]

\* No admin key presented, no list of ballots asked for, no string probed.
TokenInit ==
    /\ admin_key = NoAdminKey
    /\ admin_valid = NoAdminValid
    /\ ballots = NoBallots
    /\ probes = <<>>

Named == "named"
NoView == [index |-> NoValue, votes |-> 0, choices |-> {}]
NoResponse == "none"
NoAdmin == [pc |-> "idle", ac |-> FALSE, any_votes |-> FALSE, rows |-> {}, blanks |-> {},
            secret |-> <<>>]

\* A new poll (settings defaults of Poll.settings) with one named and one
\* blank option, no request running.
AppInit ==
    /\ accepting_votes = FALSE
    /\ votes_per_ballot = 1
    /\ option_name = [o \in PollOptions |-> IF o = 1 THEN Named ELSE ""]
    /\ next_id = 3
    /\ view = [p \in Procs |-> NoView]
    /\ response = [p \in Procs |-> NoResponse]
    /\ admin = NoAdmin
    /\ edits = 0

Init ==
    /\ LedgerInit
    /\ secret = SecretA
    /\ CryptoInit
    /\ ballot_secret = SecretA
    /\ PollInit
    /\ admin_secret = SecretB
    /\ TokenInit
    /\ AppInit

\* ------------------------------------------- use_ballot, step by step

\* Line 197-198: the call starts and runs its existence check.
\* Handlers are interchangeable, so they start in order of their number.
Check(p, i, options) ==
    /\ pc[p] = "idle"
    /\ \A q \in Procs : q < p => pc[q] # "idle"
    /\ arg' = [arg EXCEPT ![p] = [i |-> i, options |-> options]]
    /\ \/ /\ ExistsUsed(i)
          /\ pc' = [pc EXCEPT ![p] = "done"]
          /\ ret' = [ret EXCEPT ![p] = False]
       \/ /\ ~ExistsUsed(i)
          /\ pc' = [pc EXCEPT ![p] = "checked"]
          /\ ret' = ret
    /\ UNCHANGED <<UsedBallot, count, log, cryptoVars, pollVars, tokenVars, appVars>>

\* Line 200-201: the transaction opens and inserts the row. The insert waits
\* while another open transaction holds the same pair; against a committed
\* pair it raises IntegrityError, which leaves the atomic block (rollback) and
\* use_ballot.
Create(p) ==
    /\ pc[p] = "checked"
    /\ \A q \in Procs \ {p} : ~HoldsIndex(q, arg[p].i)
    /\ \/ /\ UniqueViolation(arg[p].i)
          /\ pc' = [pc EXCEPT ![p] = "done"]
          /\ ret' = [ret EXCEPT ![p] = IntegrityError]
       \/ /\ ~UniqueViolation(arg[p].i)
          /\ pc' = [pc EXCEPT ![p] = "created"]
          /\ ret' = ret
    /\ UNCHANGED <<UsedBallot, count, arg, log, cryptoVars, pollVars, tokenVars, appVars>>

\* Line 202: the UPDATE takes the row locks of the selected options; it waits
\* while another open transaction holds one of them.
Update(p) ==
    /\ pc[p] = "created"
    /\ \A q \in Procs \ {p} : \A o \in Range(arg[p].options) : ~HoldsOption(q, o)
    /\ pc' = [pc EXCEPT ![p] = "updated"]
    /\ UNCHANGED <<UsedBallot, count, arg, ret, log, cryptoVars, pollVars, tokenVars, appVars>>

\* Line 200 (leaving the atomic block) and 203: the row and the increments
\* become visible together and the call returns True.
Commit(p) ==
    /\ pc[p] = "updated"
    /\ UsedBallot' = InsertUsed(UsedBallot, arg[p].i)
    /\ count' = QsUpdate(count, arg[p].options)
    /\ pc' = [pc EXCEPT ![p] = "done"]
    /\ ret' = [ret EXCEPT ![p] = True]
    /\ UNCHANGED <<arg, log, cryptoVars, pollVars, tokenVars, appVars>>

\* The same failure with the statements run outside a transaction: what was
\* written before the failure stays.
DbErrorNoRollback(p) ==
    /\ pc[p] \in {"checked", "created", "updated"}
    /\ UsedBallot' = IF pc[p] = "checked" THEN UsedBallot
                     ELSE InsertUsed(UsedBallot, arg[p].i)
    /\ count' = IF pc[p] = "updated" THEN QsUpdate(count, arg[p].options) ELSE count
    /\ pc' = [pc EXCEPT ![p] = "done"]
    /\ ret' = [ret EXCEPT ![p] = DatabaseError]
    /\ UNCHANGED <<arg, log, cryptoVars, pollVars, tokenVars, appVars>>

\* A statement of the open transaction fails in the database (connection
\* lost, lock timeout): the atomic block rolls back and the error leaves
\* use_ballot.
DbError(p) ==
    /\ pc[p] \in {"checked", "created", "updated"}
    /\ pc' = [pc EXCEPT ![p] = "done"]
    /\ ret' = [ret EXCEPT ![p] = DatabaseError]
    /\ UNCHANGED <<UsedBallot, count, arg, log, cryptoVars, pollVars, tokenVars, appVars>>

Next ==
    \/ \E p \in Procs, i \in Indices, options \in OptionLists : Check(p, i, options)
    \/ \E p \in Procs : Create(p)
    \/ \E p \in Procs : Update(p)
    \/ \E p \in Procs : Commit(p)

Spec == Init /\ [][Next]_vars

NextFault == Next \/ \E p \in Procs : DbError(p)

SpecFault == Init /\ [][NextFault]_vars

\* ------------------------------------- use_ballot, one whole call at a time

\* What one whole call returns or raises in the committed state it meets:
\* line 197-198, then the INSERT of line 201 against the unique index.
UseBallotResult(i) ==
    IF ExistsUsed(i) THEN False
    ELSE IF UniqueViolation(i) THEN IntegrityError
    ELSE True

\* use_ballot(p, i, options) run from its first line to its return with no
\* other call in between; the caller may call again.
use_ballot(i, options) ==
    /\ Len(log) < MaxCalls
    /\ LET r == UseBallotResult(i) IN
        /\ UsedBallot' = IF r = True THEN InsertUsed(UsedBallot, i) ELSE UsedBallot
        /\ count' = IF r = True THEN QsUpdate(count, options) ELSE count
        /\ ret' = [ret EXCEPT ![1] = r]
        /\ log' = Append(log, [i |-> i, ret |-> r])
    /\ arg' = [arg EXCEPT ![1] = [i |-> i, options |-> options]]
    /\ UNCHANGED <<pc, cryptoVars, pollVars, tokenVars, appVars>>

NextSeq == \E i \in Indices, options \in OptionLists : use_ballot(i, options)

SpecSeq == Init /\ [][NextSeq]_vars

\* --------------------------------------- the functions of votee/crypto.py

\* The plaintexts given to encrypt_int: small ones, and the first values that
\* need a second, third and fourth byte, up to the largest of 31 bits.
Plaintexts == (0..MaxPlain) \cup {255, 256, 65536, 16777216, 2147483647}
\* The bounds given to decrypt_int.
ValidValues == (-1..(MaxPlain + 1)) \cup {256, 257, 65537, 2147483647}

\* 16-byte plaintext blocks that encrypt_int never builds: a nonzero second,
\* third or fourth word, or a first word with its top bit set.
OtherBlocks ==
    {Pack4(a, w[1], w[2], w[3]) :
        a \in {0, 1},
        w \in {<<1, 0, 0>>, <<0, 1, 0>>, <<0, 0, 1>>, <<0, 0, 16777216>>, <<256, 0, 0>>}}
    \cup {<<0, 0, 0, 128>> \o [j \in 1..12 |-> 0], [j \in 1..BlockLen |-> 255]}

\* The byte strings a client can present as a ciphertext: encryptions of the
\* blocks above and of small plaintexts under any secret, fixed blocks, and
\* strings of another length.
PresentedCts ==
    {AESEncrypt(s, pt) : s \in Secrets, pt \in OtherBlocks}
    \cup {encrypt_int(s, n) : s \in Secrets, n \in 0..1}
    \cup {[j \in 1..BlockLen |-> 0], [j \in 1..BlockLen |-> 255],
          [j \in 1..BlockLen |-> 17 * (j - 1)],
          [j \in 1..BlockLen |-> IF j % 3 = 1 THEN 251 ELSE IF j % 3 = 2 THEN 239 ELSE 190]}
    \cup {<<>>, <<0, 0, 0, 0>>, [j \in 1..(BlockLen - 1) |-> 0],
          [j \in 1..(BlockLen + 1) |-> 0]}

\* The strings a client can present as a token (tests.py presents "abc" and
\* "0123456789abcdef").
PresentedKeys ==
    { <<"a", "b", "c">>,
      <<"0", "1", "2", "3", "4", "5", "6", "7", "8", "9", "a", "b", "c", "d", "e", "f">>,
      [j \in 1..TokenLen |-> "A"],
      [j \in 1..TokenLen |-> IF j = TokenLen THEN "B" ELSE "A"],
      [j \in 1..TokenLen |-> IF j = 5 THEN "=" ELSE "A"],
      [j \in 1..TokenLen |-> IF j = 5 THEN "+" ELSE "_"],
      [j \in 1..(TokenLen + 1) |-> "A"],
      [j \in 1..(TokenLen - 1) |-> "-"] }

\* encrypt_int(secret, n) is called; its value replaces the bytes at hand.
EncryptInt(n) ==
    /\ ct' = [bytes |-> encrypt_int(secret, n), n |-> n]
    /\ result' = NoResult
    /\ key' = NoKey
    /\ decoded' = NoDecoded
    /\ UNCHANGED <<secret, ledgerVars, ballot_secret, pollVars, tokenVars, appVars>>

\* A client presents bytes of its own.
PresentCt(c) ==
    /\ ct' = [bytes |-> c, n |-> -1]
    /\ result' = NoResult
    /\ key' = NoKey
    /\ decoded' = NoDecoded
    /\ UNCHANGED <<secret, ledgerVars, ballot_secret, pollVars, tokenVars, appVars>>

\* decrypt_int(secret, ct, v) is called on the bytes at hand.
DecryptInt(v) ==
    /\ result' = [called |-> TRUE, valid_values |-> v,
                  r |-> decrypt_int(secret, ct.bytes, v)]
    /\ UNCHANGED <<secret, ct, key, decoded, ledgerVars, ballot_secret, pollVars, tokenVars, appVars>>

\* urlencode(ct) is called on the bytes at hand; its assertion admits 16
\* bytes only.
UrlEncode ==
    /\ Len(ct.bytes) = BlockLen
    /\ key' = [str |-> urlencode(ct.bytes), of |-> Some(ct.bytes)]
    /\ decoded' = NoDecoded
    /\ UNCHANGED <<secret, ct, result, ledgerVars, ballot_secret, pollVars, tokenVars, appVars>>

\* A client presents a string of its own.
PresentKey(k) ==
    /\ key' = [str |-> k, of |-> NoValue]
    /\ decoded' = NoDecoded
    /\ UNCHANGED <<secret, ct, result, ledgerVars, ballot_secret, pollVars, tokenVars, appVars>>

\* urldecode(key) is called on the string at hand.
UrlDecode ==
    /\ decoded' = [called |-> TRUE, r |-> urldecode(key.str)]
    /\ UNCHANGED <<secret, ct, result, key, ledgerVars, ballot_secret, pollVars, tokenVars, appVars>>

InitCrypto ==
    /\ LedgerInit
    /\ secret \in Secrets
    /\ CryptoInit
    /\ ballot_secret = SecretA
    /\ PollInit
    /\ admin_secret = SecretB
    /\ TokenInit
    /\ AppInit

NextCrypto ==
    \/ \E n \in Plaintexts : EncryptInt(n)
    \/ \E c \in PresentedCts : PresentCt(c)
    \/ \E v \in ValidValues : DecryptInt(v)
    \/ UrlEncode
    \/ \E k \in PresentedKeys : PresentKey(k)
    \/ UrlDecode

SpecCrypto == InitCrypto /\ [][NextCrypto]_vars

\* ------------------------------------------------- the poll and its tokens

\* get_ballots leaving out the indices at or beyond number_of_ballots.
get_ballots_below_bound(lo, hi) ==
    [j \in 1..((IF hi < number_of_ballots THEN hi ELSE number_of_ballots) - lo) |->
        urlencode(encrypt_int(ballot_secret, lo + j - 1))]

\* Poll.get_ballots(lo, hi)
get_ballots(lo, hi) ==
    [j \in 1..(hi - lo) |-> urlencode(encrypt_int(ballot_secret, lo + j - 1))]

\* validate_ballot passing number_of_ballots + 1 as the bound.
validate_ballot_inclusive(k) ==
    LET d == urldecode(k)
    IN IF d = NoValue THEN NoValue
       ELSE decrypt_int(ballot_secret, d[1], number_of_ballots + 1)

\* validate_ballot telling an index beyond the bound from the other refusals.
validate_ballot_reports_range(k) ==
    LET d == urldecode(k)
    IN IF d = NoValue THEN NoValue
       ELSE IF decrypt_int(ballot_secret, d[1], number_of_ballots) = NoValue
               /\ decrypt_int(ballot_secret, d[1], 2147483647) # NoValue
            THEN Some(-1)
            ELSE decrypt_int(ballot_secret, d[1], number_of_ballots)

\* Poll.validate_ballot(k)
validate_ballot(k) ==
    LET d == urldecode(k)
    IN IF d = NoValue THEN NoValue
       ELSE decrypt_int(ballot_secret, d[1], number_of_ballots)

\* poll.get_ballots(lo, hi) is called and its tokens are handed out; a token
\* handed out before stays with its holder.
GetBallots(lo, hi) ==
    /\ lo <= hi
    /\ LET tokens == get_ballots(lo, hi)
       IN issued' = [i \in DOMAIN issued \cup (lo..(hi - 1)) |->
                        IF i \in DOMAIN issued THEN issued[i] ELSE tokens[i - lo + 1]]
    /\ issued' # issued
    /\ UNCHANGED <<ballot_secret, number_of_ballots, validations, ledgerVars, cryptoVars, tokenVars, appVars>>

\* poll.number_of_ballots = n (tests.py; PollAdmin.form_valid with the form's
\* "ballots" field, which has min_value 0).
SetNumberOfBallots(n) ==
    /\ n # number_of_ballots
    /\ number_of_ballots' = n
    /\ UNCHANGED <<ballot_secret, issued, validations, ledgerVars, cryptoVars, tokenVars, appVars>>

\* poll.validate_ballot is called with the token handed out for index i. The
\* calls made for one token are kept, with the bound each of them met.
ValidateBallot(i) ==
    /\ i \in DOMAIN issued
    /\ LET call == [bound |-> number_of_ballots, r |-> validate_ballot(issued[i])]
       IN IF validations.i = i
          THEN /\ Len(validations.calls) < MaxValidations
               /\ validations' = [validations EXCEPT !.calls = Append(@, call)]
          ELSE validations' = [i |-> i, calls |-> <<call>>]
    /\ UNCHANGED <<ballot_secret, number_of_ballots, issued, ledgerVars, cryptoVars, tokenVars, appVars>>

InitPoll ==
    /\ LedgerInit
    /\ secret = SecretA
    /\ CryptoInit
    /\ ballot_secret \in Secrets
    /\ PollInit
    /\ admin_secret = SecretB
    /\ TokenInit
    /\ AppInit

NextPoll ==
    \/ \E lo, hi \in 0..(MaxBallots + 1) : GetBallots(lo, hi)
    \/ \E n \in 0..MaxBallots : SetNumberOfBallots(n)
    \/ \E i \in 0..MaxBallots : ValidateBallot(i)

SpecPoll == InitPoll /\ [][NextPoll]_vars

\* ------------------------------------- votee/models.py: the admin key

\* validate_admin_key accepting every plaintext below 2.
validate_admin_key_below_two(k) ==
    LET d == urldecode(k)
    IN d # NoValue /\ decrypt_int(admin_secret, d[1], 2) # NoValue

\* Election.get_admin_key()
get_admin_key == urlencode(encrypt_int(admin_secret, 0))

\* Election.validate_admin_key(k)
validate_admin_key(k) ==
    LET d == urldecode(k)
    IN d # NoValue /\ decrypt_int(admin_secret, d[1], 1) = Some(0)

\* The strings a client can present as an admin key: the strings above and
\* the encodings of the 16-byte values above.
PresentedAdminKeys ==
    PresentedKeys \cup {urlencode(c) : c \in {x \in PresentedCts : Len(x) = BlockLen}}

\* e.get_admin_key() is called; its value is the string at hand.
GetAdminKey ==
    /\ admin_key' = [str |-> get_admin_key, own |-> TRUE]
    /\ admin_valid' = NoAdminValid
    /\ UNCHANGED <<admin_secret, ballots, probes, ledgerVars, cryptoVars, pollVars, appVars>>

\* A client presents a string of its own.
PresentAdminKey(k) ==
    /\ admin_key' = [str |-> k, own |-> FALSE]
    /\ admin_valid' = NoAdminValid
    /\ UNCHANGED <<admin_secret, ballots, probes, ledgerVars, cryptoVars, pollVars, appVars>>

\* e.validate_admin_key(k) is called on the string at hand.
ValidateAdminKey ==
    /\ admin_key # NoAdminKey
    /\ ~admin_valid.called
    /\ admin_valid' = [called |-> TRUE, r |-> validate_admin_key(admin_key.str)]
    /\ UNCHANGED <<admin_secret, admin_key, ballots, probes, ledgerVars, cryptoVars, pollVars, appVars>>

InitElection ==
    /\ LedgerInit
    /\ secret = SecretA
    /\ CryptoInit
    /\ ballot_secret = SecretA
    /\ PollInit
    /\ admin_secret \in Secrets
    /\ TokenInit
    /\ AppInit

NextElection ==
    \/ GetAdminKey
    \/ \E k \in PresentedAdminKeys : PresentAdminKey(k)
    \/ ValidateAdminKey

SpecElection == InitElection /\ [][NextElection]_vars

\* ------------------------------------ votee/models.py: lists of ballots

\* poll.get_ballots(lo, hi) is called; the list it returns is kept.
ListBallots(lo, hi) ==
    /\ ballots' = [called |-> TRUE, lo |-> lo, hi |-> hi, bound |-> number_of_ballots,
                   tokens |-> get_ballots(lo, hi)]
    /\ UNCHANGED <<admin_secret, admin_key, admin_valid, probes, ledgerVars, cryptoVars, pollVars, appVars>>

NextIssue ==
    \/ \E lo, hi \in 0..MaxBallots : ListBallots(lo, hi)
    \/ \E n \in 0..MaxBallots : SetNumberOfBallots(n)

SpecIssue == InitPoll /\ [][NextIssue]_vars

\* --------------------------------- votee/models.py: rejected ballot keys

Malformed == "wrong length or alphabet"
OtherSecret == "another secret"
Tampered == "tampered"
OutOfRange == "index at or beyond number_of_ballots"
InRange == "index below number_of_ballots"
Whys == {Malformed, OtherSecret, Tampered, OutOfRange, InRange}

\* The strings a client can present as a ballot key, by what is wrong with
\* them. A tampered key is one whose 16 bytes decrypt under the poll's secret
\* to a block that encrypt_int never builds.
ProbeKeys(why) ==
    CASE why = Malformed ->
            {k \in PresentedKeys :
                Len(k) # TokenLen \/ \E j \in 1..Len(k) : k[j] \notin TokenChars}
      [] why = OtherSecret ->
            {urlencode(encrypt_int(s, i)) : s \in Secrets \ {ballot_secret}, i \in 0..MaxBallots}
      [] why = Tampered ->
            {urlencode(AESEncrypt(ballot_secret, pt)) : pt \in OtherBlocks}
      [] why = OutOfRange ->
            {urlencode(encrypt_int(ballot_secret, i)) : i \in number_of_ballots..MaxBallots}
      [] why = InRange ->
            {urlencode(encrypt_int(ballot_secret, i)) : i \in 0..(number_of_ballots - 1)}

\* poll.validate_ballot(k) is called on a presented string; the last two
\* calls are kept.
ProbeBallot(why, k) ==
    /\ LET call == [why |-> why, r |-> validate_ballot(k)]
       IN probes' = IF Len(probes) = 2 THEN <<probes[2], call>> ELSE Append(probes, call)
    /\ UNCHANGED <<admin_secret, admin_key, admin_valid, ballots, ledgerVars, cryptoVars, pollVars, appVars>>

NextProbe ==
    \/ \E why \in Whys : \E k \in ProbeKeys(why) : ProbeBallot(why, k)
    \/ \E n \in 0..MaxBallots : SetNumberOfBallots(n)

SpecProbe == InitPoll /\ [][NextProbe]_vars

\* ---------------------------- votee/views.py: voting and admin requests

\* The field's default drawn again when the row is saved.
SavedSecretRedrawn(loaded) == IF loaded = SecretA THEN SecretB ELSE SecretA

\* save() writes every field of the row as the request loaded it; the secret
\* is one of them and no view assigns it.
SavedSecret(loaded) == loaded

\* o.delete() for every o of to_delete: the rows are gone, the others stay.
DeleteOptions(f, ids) == [o \in DOMAIN f \ ids |-> f[o]]

\* Every option of the form saved, each from an object with the default count.
SaveOptionsAll(cnt, ids) == [o \in DOMAIN cnt \cup ids |-> 0]

\* o.save() for every o of to_save, which holds new options only: rows with
\* fresh ids and the default count 0; no existing row is written.
SaveOptions(cnt, ids) == [o \in DOMAIN cnt \cup ids |-> IF o \in ids THEN 0 ELSE cnt[o]]

\* What the "s" parameter of a voting request can be: absent, a string that
\* is no token, or the token of a ballot index.
VoterKeys ==
    {NoValue, Some(<<"a", "b", "c">>)}
    \cup {Some(urlencode(encrypt_int(ballot_secret, i))) : i \in Indices}

\* The values of the fields option1..optionN of a submitted form: each is "0"
\* or the id of an option listed by get_form. Nothing reads their order, so
\* they are listed in ascending order.
ChosenLists(n, ids) ==
    {c \in [1..n -> ids \cup {0}] : \A j \in 1..(n - 1) : c[j] <= c[j + 1]}

\* PollDetail.get_form for a POST, the form's validation, and the checks of
\* form_valid that read only what get_form left (line 289-299): the poll is
\* loaded, the key validated against it, the existence of a record and the
\* options read. Without a valid key the fields are disabled, the required
\* choices are missing and the form is shown again with its errors.
GetForm(p, k) ==
    /\ pc[p] = "idle"
    /\ \A q \in Procs : q < p => pc[q] # "idle"
    /\ LET index == IF k = NoValue THEN NoValue ELSE validate_ballot(k[1])
           error == IF index = NoValue THEN "form_invalid"
                    ELSE IF ExistsUsed(index[1]) THEN "already_voted"
                    ELSE IF ~accepting_votes THEN "closed"
                    ELSE NoResponse
       IN IF error # NoResponse
          THEN /\ pc' = [pc EXCEPT ![p] = "responded"]
               /\ response' = [response EXCEPT ![p] = error]
               /\ view' = view
          ELSE /\ pc' = [pc EXCEPT ![p] = "form"]
               /\ response' = response
               /\ view' = [view EXCEPT ![p] =
                              [index |-> index,
                               votes |-> votes_per_ballot,
                               choices |-> DOMAIN count]]
    /\ UNCHANGED <<UsedBallot, count, arg, ret, log, cryptoVars, pollVars, tokenVars,
                   accepting_votes, votes_per_ballot, option_name, next_id, admin, edits>>

\* PollDetail.form_valid from line 300 to the existence check of use_ballot
\* (line 197): the options read again (line 301), the missing and duplicate
\* tests, then the call.
FormValid(p, chosen) ==
    /\ pc[p] = "form"
    /\ LET v == view[p]
           missing == \E j \in DOMAIN chosen : chosen[j] \notin DOMAIN count
           dupes == \E j, k \in DOMAIN chosen :
                        j < k /\ chosen[j] = chosen[k] /\ option_name[chosen[j]] # ""
           error == IF missing THEN "incomplete"
                    ELSE IF dupes THEN "dupes"
                    ELSE NoResponse
       IN IF error # NoResponse
          THEN /\ pc' = [pc EXCEPT ![p] = "responded"]
               /\ response' = [response EXCEPT ![p] = error]
               /\ UNCHANGED <<arg, ret>>
          ELSE /\ arg' = [arg EXCEPT ![p] = [i |-> v.index[1], options |-> chosen]]
               /\ IF ExistsUsed(v.index[1])
                  THEN /\ pc' = [pc EXCEPT ![p] = "done"]
                       /\ ret' = [ret EXCEPT ![p] = False]
                  ELSE /\ pc' = [pc EXCEPT ![p] = "checked"]
                       /\ ret' = ret
               /\ response' = response
    /\ view' = [view EXCEPT ![p] = NoView]
    /\ UNCHANGED <<UsedBallot, count, log, cryptoVars, pollVars, tokenVars,
                   accepting_votes, votes_per_ballot, option_name, next_id, admin, edits>>

\* Line 316-324: use_ballot has returned or raised. Its value is dropped and
\* the redirect to ?voted=1 follows; an exception leaves the view and the
\* request ends as a server error. The options of a call that returned True
\* stay on record for the tally, those of another call are forgotten.
Respond(p) ==
    /\ pc[p] = "done"
    /\ pc' = [pc EXCEPT ![p] = "responded"]
    /\ response' = [response EXCEPT ![p] =
                       IF ret[p] \in {True, False} THEN "voted" ELSE "server_error"]
    /\ arg' = [arg EXCEPT ![p] = IF ret[p] = True THEN @ ELSE [i |-> @.i, options |-> <<>>]]
    /\ UNCHANGED <<UsedBallot, count, ret, log, cryptoVars, pollVars, tokenVars,
                   accepting_votes, votes_per_ballot, option_name, view, next_id, admin, edits>>

\* PollAdmin.dispatch and get_form for a POST with the admin key: the poll
\* and its options are loaded. One administrator sends one request at a time.
AdminGetForm ==
    /\ admin.pc = "idle"
    /\ edits < MaxEdits
    /\ admin' = [pc |-> "form",
                 ac |-> accepting_votes,
                 any_votes |-> \E o \in DOMAIN count : count[o] # 0,
                 rows |-> {o \in DOMAIN option_name : option_name[o] # ""},
                 blanks |-> {o \in DOMAIN option_name : option_name[o] = ""},
                 secret |-> ballot_secret]
    /\ UNCHANGED <<ledgerVars, cryptoVars, pollVars, tokenVars,
                   accepting_votes, votes_per_ballot, option_name, next_id, view, response, edits>>

\* PollAdmin.form_valid with the form's "blank", "o<id>_delete", "new_options"
\* (no line or one line), "ac", "votes" and "ballots" fields. A delete box is
\* disabled, so False, when get_form saw the poll accepting votes or any
\* count; the name boxes are then disabled too, so no existing option is
\* saved. A DELETE waits for a transaction that holds the row's lock.
AdminFormValid(blank, delete, new, ac, votes, n) ==
    /\ admin.pc = "form"
    /\ LET kept_blank == IF blank /\ admin.blanks # {}
                         THEN {CHOOSE o \in admin.blanks : \A b \in admin.blanks : o <= b}
                         ELSE {}
           cleaned_delete == IF admin.ac \/ admin.any_votes THEN {} ELSE delete
           to_delete == (admin.blanks \ kept_blank)
                        \cup (IF admin.ac THEN {} ELSE cleaned_delete)
           blank_ids == IF blank /\ kept_blank = {} THEN {next_id} ELSE {}
           named_ids == IF new THEN {next_id + Cardinality(blank_ids)} ELSE {}
           to_save == blank_ids \cup named_ids
       IN /\ \A o \in to_save : o <= MaxOptionId
          /\ \A q \in Procs : \A o \in to_delete : ~HoldsOption(q, o)
          /\ count' = SaveOptions(DeleteOptions(count, to_delete), to_save)
          /\ option_name' = [o \in (DOMAIN option_name \ to_delete) \cup to_save |->
                                 IF o \in blank_ids THEN ""
                                 ELSE IF o \in named_ids THEN Named
                                 ELSE option_name[o]]
          /\ next_id' = next_id + Cardinality(to_save)
    /\ accepting_votes' = ac
    /\ votes_per_ballot' = votes
    /\ number_of_ballots' = n
    /\ ballot_secret' = SavedSecret(admin.secret)
    /\ admin' = [admin EXCEPT !.pc = "idle"]
    /\ edits' = edits + 1
    /\ UNCHANGED <<UsedBallot, pc, arg, ret, log, cryptoVars, issued, validations, tokenVars,
                   view, response>>

\* ElectionAdmin.get_form and form_valid with the election's admin key, as
\* far as this poll goes, its delete box left unchecked: for a poll accepting
\* votes the "votes" box is disabled with initial value 1, so a poll with
\* another votes_per_ballot is set to 1 and saved; the election is saved.
ElectionAdminFormValid ==
    /\ admin.pc = "idle"
    /\ edits < MaxEdits
    /\ IF accepting_votes /\ votes_per_ballot # 1
       THEN /\ votes_per_ballot' = 1
            /\ ballot_secret' = SavedSecret(ballot_secret)
       ELSE UNCHANGED <<votes_per_ballot, ballot_secret>>
    /\ admin_secret' = SavedSecret(admin_secret)
    /\ edits' = edits + 1
    /\ UNCHANGED <<ledgerVars, cryptoVars, number_of_ballots, issued, validations,
                   admin_key, admin_valid, ballots, probes,
                   accepting_votes, option_name, next_id, view, response, admin>>

\* A poll as its organisers have set it up, with one named and one blank
\* option, before any vote.
InitApp ==
    /\ LedgerInit
    /\ secret = SecretA
    /\ CryptoInit
    /\ ballot_secret = SecretA
    /\ number_of_ballots = MaxIndex + 1
    /\ issued = [i \in {} |-> <<>>]
    /\ validations = NoValidations
    /\ admin_secret = SecretB
    /\ TokenInit
    /\ accepting_votes = TRUE
    /\ votes_per_ballot = MaxVotes
    /\ option_name = [o \in PollOptions |-> IF o = 1 THEN Named ELSE ""]
    /\ next_id = 3
    /\ view = [p \in Procs |-> NoView]
    /\ response = [p \in Procs |-> NoResponse]
    /\ admin = NoAdmin
    /\ edits = 0

NextApp ==
    \/ \E p \in Procs, k \in VoterKeys : GetForm(p, k)
    \/ \E p \in Procs : \E chosen \in ChosenLists(view[p].votes, view[p].choices) :
          FormValid(p, chosen)
    \/ \E p \in Procs : Create(p)
    \/ \E p \in Procs : Update(p)
    \/ \E p \in Procs : Commit(p)
    \/ \E p \in Procs : Respond(p)
    \/ AdminGetForm
    \/ \E blank, new, ac \in BOOLEAN, delete \in SUBSET admin.rows,
          votes \in 1..MaxVotes, n \in 0..(MaxIndex + 1) :
          AdminFormValid(blank, delete, new, ac, votes, n)
    \/ ElectionAdminFormValid

SpecApp == InitApp /\ [][NextApp]_vars

\* ------------------------------------------------------------ properties

\* The handlers that have called use_ballot for index i.
Callers(i) == {p \in Procs : pc[p] # "idle" /\ arg[p].i = i}
\* The calls that returned True.
Winners == {p \in Procs : ret[p] = True}

\* C1: once every concurrent call for the same, previously unused
\* (poll, ballot_index) has ended, exactly one of them has returned True and
\* exactly one UsedBallot row for the pair exists; and once every call has
\* ended, each option's count is the number of winning calls that selected it.
C1_ExactlyOneWinner ==
    /\ \A i \in Indices :
        (Callers(i) # {} /\ \A p \in Callers(i) : pc[p] = "done")
            => /\ Cardinality(Callers(i) \cap Winners) = 1
               /\ UsedBallot[i] = 1
    /\ (\A p \in Procs : pc[p] = "done")
        => \A o \in PollOptions :
            count[o] = Cardinality({p \in Winners : o \in Range(arg[p].options)})

\* C1 witness: two calls for the same index both passed the existence check,
\* one won and the other lost at the unique index, and all calls have ended.
C1_Witness ==
    /\ \A p \in Procs : pc[p] = "done"
    /\ \E p, q \in Procs :
        /\ arg[p].i = arg[q].i
        /\ ret[p] = True
        /\ ret[q] = IntegrityError
        /\ arg[p].options = <<1>>
        /\ arg[q].options = <<2>>

\* C2: every call that does not win its (poll, ballot_index) ends by
\* returning False, never by an error.
C2_LoserReturnsFalse ==
    \A p \in Procs : (pc[p] = "done" /\ ret[p] # True) => ret[p] = False

\* C3: in a sequential history a call returns True exactly when it is the
\* first call for its (poll, ballot_index); every later call for the pair
\* returns False and leaves all rows and counts as they were.
C3_FirstCallOnly ==
    [][Len(log') = Len(log) + 1 =>
        LET e == log'[Len(log')]
            seen == \E k \in 1..Len(log) : log[k].i = e.i
        IN /\ e.ret = IF seen THEN False ELSE True
           /\ seen => UNCHANGED <<UsedBallot, count>>]_vars

\* C3 witness: the third call for index 0 named another option than the first
\* and was refused; only the first call's vote is counted.
C3_Witness ==
    /\ Len(log) = 3
    /\ \A k \in 1..3 : log[k].i = 0
    /\ log[1].ret = True /\ log[2].ret = False /\ log[3].ret = False
    /\ arg[1].options = <<1, 2>>
    /\ count = [o \in PollOptions |-> IF o = 1 THEN 1 ELSE 0]

C5_DistinctOptionsPlusOne ==
    [][\A p \in Procs :
        (ret[p] # True /\ ret'[p] = True /\ PairwiseDistinct(arg[p].options))
            => /\ UsedBallot'[arg[p].i] = UsedBallot[arg[p].i] + 1
               /\ \A o \in PollOptions :
                    count'[o] = IF o \in Range(arg[p].options)
                                THEN count[o] + 1 ELSE count[o]]_vars

\* C5 witness: an abstaining call and a two-option call have both succeeded;
\* each of the two options was counted once.
C5_Witness ==
    \E p, q \in Procs :
        /\ ret[p] = True /\ arg[p].options = <<>>
        /\ ret[q] = True /\ arg[q].options = <<1, 2>>
        /\ UsedBallot[arg[p].i] = 1 /\ UsedBallot[arg[q].i] = 1
        /\ count = [o \in PollOptions |-> 1]
        /\ \A r \in Procs : pc[r] \in {"idle", "done"}

\* C6: the count of each option is the number of times it occurs, repeats
\* included, in the option lists of the calls that returned True.
C6_CountsEveryOccurrence ==
    \A o \in PollOptions :
        (\A p \in Procs : pc[p] \in {"idle", "done"})
            => count[o] = Cardinality({pk \in Winners \X (1..MaxVotes) :
                    pk[2] \in DOMAIN arg[pk[1]].options
                    /\ arg[pk[1]].options[pk[2]] = o})

\* C7: every validate_ballot call on the token issued for index i returns i
\* when i is below the number_of_ballots it meets and None otherwise, whatever
\* the bound was before: the same token turns valid when the bound is raised
\* above i and invalid when it is lowered to i or below.
C7_TokenFollowsBound ==
    \A k \in 1..Len(validations.calls) :
        validations.calls[k].r =
            IF validations.i < validations.calls[k].bound
            THEN Some(validations.i) ELSE NoValue

\* C7 witness: the token of index 1 was refused under bound 1, accepted under
\* bound 2 and refused again under bound 1.
C7_Witness ==
    /\ validations.i = 1
    /\ validations.calls = << [bound |-> 1, r |-> NoValue],
                              [bound |-> 2, r |-> Some(1)],
                              [bound |-> 1, r |-> NoValue] >>

\* C8: decrypt_int(s, encrypt_int(s, n), v) is n when n < v and None when
\* n >= v.
C8_RoundTrip ==
    (result.called /\ ct.n >= 0)
        => result.r = IF ct.n < result.valid_values THEN Some(ct.n) ELSE NoValue

\* C8 witness: encrypt_int(s, 256) was decrypted with bound 257 and gave 256.
C8_Witness ==
    /\ result.called
    /\ ct.n = 256
    /\ result.valid_values = 257
    /\ result.r = Some(256)

\* C9: decrypt_int(s, ct, v) returns a value a only for a 16-byte ct that
\* decrypts under s to the block (a, 0, 0, 0) with a < v, that is for
\* ct = encrypt_int(s, a); and it returns n for every ct = encrypt_int(s, n)
\* with n < v. Every other ct is refused.
C9_AcceptsIssuedOnly ==
    result.called =>
        /\ result.r # NoValue =>
            /\ Len(ct.bytes) = BlockLen
            /\ result.r[1] >= 0 /\ result.r[1] < result.valid_values
            /\ AESDecrypt(secret, ct.bytes) = Pack4(result.r[1], 0, 0, 0)
            /\ ct.bytes = encrypt_int(secret, result.r[1])
        /\ \A n \in Plaintexts :
            (n < result.valid_values /\ ct.bytes = encrypt_int(secret, n))
                => result.r = Some(n)

\* C9 witness: a presented 16-byte ct that decrypts to (0, 0, 0, 1) was
\* refused under bound 1.
C9_Witness ==
    /\ result.called
    /\ ct.n = -1
    /\ Len(ct.bytes) = BlockLen
    /\ AESDecrypt(secret, ct.bytes) = Pack4(0, 0, 0, 1)
    /\ result.valid_values = 1
    /\ result.r = NoValue

\* C10: urlencode of a 16-byte value is a string of 22 characters of
\* [A-Za-z0-9_-], and urldecode of that string is the value.
C10_CodecRoundTrip ==
    key.of # NoValue =>
        /\ Len(key.str) = 22
        /\ \A j \in 1..Len(key.str) : key.str[j] \in TokenChars
        /\ decoded.called => decoded.r = key.of

\* C10 witness: the block of sixteen 255 bytes was encoded, to a string that
\* starts with "_", and decoded back.
C10_Witness ==
    /\ key.of = Some([j \in 1..BlockLen |-> 255])
    /\ key.str[1] = "_"
    /\ decoded.called
    /\ decoded.r = key.of

\* C11: urldecode returns None for every string whose length is not 22 and
\* for every 22-character string with a character outside [A-Za-z0-9_-]; for
\* every 22-character string over that alphabet it returns 16 bytes.
C11_DecodeTotal ==
    decoded.called =>
        IF Len(key.str) # 22 \/ \E j \in 1..Len(key.str) : key.str[j] \notin TokenChars
        THEN decoded.r = NoValue
        ELSE /\ decoded.r # NoValue
             /\ Len(decoded.r[1]) = 16
             /\ \A j \in 1..16 : decoded.r[1][j] \in 0..255

\* C11 witness: a presented string of 23 alphabet characters was refused.
C11_Witness ==
    /\ decoded.called
    /\ key.of = NoValue
    /\ Len(key.str) = 23
    /\ \A j \in 1..Len(key.str) : key.str[j] \in TokenChars
    /\ decoded.r = NoValue

\* C12: validate_admin_key accepts the election's own admin key, and accepts
\* a string exactly when it decodes to 16 bytes that decrypt under
\* admin_secret to the block of plaintext 0; every other string gives False.
C12_AdminKey ==
    admin_valid.called =>
        LET d == urldecode(admin_key.str)
        IN /\ admin_key.own => admin_valid.r
           /\ admin_valid.r <=>
                 (d # NoValue /\ AESDecrypt(admin_secret, d[1]) = [j \in 1..BlockLen |-> 0])

\* C12 witness: the election's own admin key was validated and accepted.
C12_Witness ==
    /\ admin_valid.called
    /\ admin_key.own
    /\ admin_valid.r

\* C13: for lo <= hi, get_ballots(lo, hi) is a list of hi - lo tokens whose
\* k-th element validates to lo + k whenever number_of_ballots > lo + k, and
\* the list is the same whatever number_of_ballots is.
C13_BallotList ==
    (ballots.called /\ ballots.lo <= ballots.hi) =>
        /\ Len(ballots.tokens) = ballots.hi - ballots.lo
        /\ \A k \in 0..(ballots.hi - ballots.lo - 1) :
              number_of_ballots > ballots.lo + k
                  => validate_ballot(ballots.tokens[k + 1]) = Some(ballots.lo + k)
        /\ ballots.tokens = get_ballots(ballots.lo, ballots.hi)

\* C13 witness: get_ballots(0, 2) was called while number_of_ballots was 0,
\* the bound is now 2 and the second token validates to 1.
C13_Witness ==
    /\ ballots.called
    /\ ballots.lo = 0
    /\ ballots.hi = 2
    /\ ballots.bound = 0
    /\ number_of_ballots = 2
    /\ Len(ballots.tokens) = 2
    /\ validate_ballot(ballots.tokens[2]) = Some(1)

\* C14: any two rejected keys, whatever is wrong with each of them, get the
\* same result from validate_ballot, None.
C14_RejectionsAlike ==
    \A j, k \in DOMAIN probes :
        (probes[j].why # InRange /\ probes[k].why # InRange)
            => (probes[j].r = probes[k].r /\ probes[j].r = NoValue)

\* C14 witness: a key of the wrong alphabet or length and a key whose index
\* is beyond the bound were validated one after the other.
C14_Witness ==
    /\ Len(probes) = 2
    /\ probes[1].why = Malformed
    /\ probes[2].why = OutOfRange
    /\ probes[1].r = NoValue
    /\ probes[2].r = NoValue

\* C15: calls for different ballot indices do not interfere: a call whose
\* index no other call uses returns True, and when all calls have different
\* indices every option's count is the number of calls that selected it, as
\* in any sequential order.
C15_DistinctPairsIndependent ==
    /\ \A p \in Procs :
          (pc[p] = "done" /\ \A q \in Procs \ {p} : pc[q] = "idle" \/ arg[q].i # arg[p].i)
              => ret[p] = True
    /\ ((\A p \in Procs : pc[p] = "done")
        /\ \A p, q \in Procs : p # q => arg[p].i # arg[q].i)
          => \A o \in PollOptions :
                count[o] = Cardinality({p \in Procs : o \in Range(arg[p].options)})

\* C15 witness: two calls for different indices, both selecting option 1,
\* have returned True and the option's count is 2.
C15_Witness ==
    /\ \A p \in Procs : pc[p] = "done" /\ ret[p] = True
    /\ arg[1].i # arg[2].i
    /\ 1 \in Range(arg[1].options) \cap Range(arg[2].options)
    /\ count[1] = 2

\* C16: there is at most one UsedBallot record per ballot index, and the
\* records are those of the redemptions that returned True: none is made in
\* another way and none is changed or removed by a later redemption attempt,
\* a token validation or a poll admin edit.
C16_OneRecordPerRedemption ==
    \A i \in Indices :
        /\ UsedBallot[i] <= 1
        /\ UsedBallot[i] = Cardinality({p \in Procs : ret[p] = True /\ arg[p].i = i})

\* C16 witness: index 0 was redeemed, the poll admin form was then loaded
\* (it saw the count) and saved, a later attempt with the same token was
\* turned away, and the record is still there.
C16_Witness ==
    /\ UsedBallot[0] = 1
    /\ admin.any_votes
    /\ admin.pc = "idle"
    /\ edits = 1
    /\ \E p \in Procs : response[p] = "already_voted"

C18_SecretsFixed ==
    /\ ballot_secret = SecretA
    /\ admin_secret = SecretB
    /\ get_admin_key = urlencode(encrypt_int(SecretB, 0))
    /\ get_ballots(0, MaxIndex + 1)
           = [j \in 1..(MaxIndex + 1) |-> urlencode(encrypt_int(SecretA, j - 1))]

\* C18 witness: a vote was counted and the poll admin form was saved with
\* the poll's row written back.
C18_Witness ==
    /\ \E p \in Procs : ret[p] = True
    /\ admin.pc = "idle"
    /\ admin.secret # <<>>
    /\ edits = 1

\* C19: a submitted vote that use_ballot did not count is reported as not
\* counted: the response is never the redirect to ?voted=1 and never a
\* server error.
C19_UncountedVoteReported ==
    \A p \in Procs :
        /\ response[p] = "voted" => ret[p] = True
        /\ response[p] # "server_error"

\* C20: use_ballot refuses only for an existing record, whatever
\* number_of_ballots is: a call that returned False or raised IntegrityError
\* met a record of its index, also after the bound was lowered to or below
\* the index of a ballot validated before.
C20_OnlyOneTimeUse ==
    \A p \in Procs :
        ret[p] \in {False, IntegrityError} => UsedBallot[arg[p].i] >= 1

\* C20 witness: a ballot was validated, the bound was then lowered to or
\* below its index, and the ballot was redeemed and counted.
C20_Witness ==
    \E p \in Procs :
        /\ ret[p] = True
        /\ arg[p].i >= number_of_ballots
        /\ UsedBallot[arg[p].i] = 1
        /\ \A o \in Range(arg[p].options) : o \in DOMAIN count => count[o] >= 1
        /\ Range(arg[p].options) \cap DOMAIN count # {}

\* C21 as stated: for every token t that urldecode accepts,
\* urlencode(urldecode(t)) = t.
C21_TokenRoundTrip ==
    (decoded.called /\ decoded.r # NoValue) => urlencode(decoded.r[1]) = key.str

\* The token with the four low bits of its last character cleared.
C21_Canonical(t) ==
    [t EXCEPT ![TokenLen] = B64Char(B64Alphabet, B64Value(@) - (B64Value(@) % 16))]

\* C21 amended: urldecode accepts every 22-character string over the
\* alphabet and ignores the four low bits of the last character: the string
\* decodes to the bytes of its canonical form, urlencode gives the canonical
\* form back, and the round trip returns the string itself exactly when
\* those bits are zero.
C21_RoundTripModuloPadding ==
    (decoded.called /\ Len(key.str) = TokenLen
        /\ \A j \in 1..Len(key.str) : key.str[j] \in TokenChars)
      => /\ decoded.r # NoValue
         /\ decoded.r = urldecode(C21_Canonical(key.str))
         /\ urlencode(decoded.r[1]) = C21_Canonical(key.str)
         /\ (urlencode(decoded.r[1]) = key.str) <=> (B64Value(key.str[TokenLen]) % 16 = 0)

\* C21 witness: a presented 22-character string ending in "B" was decoded
\* to 16 zero bytes, which urlencode turns into another string.
C21_Witness ==
    /\ decoded.called
    /\ key.str = [j \in 1..TokenLen |-> IF j = TokenLen THEN "B" ELSE "A"]
    /\ decoded.r = Some([j \in 1..BlockLen |-> 0])
    /\ urlencode(decoded.r[1]) # key.str

\* C22: the token of an index differs from the token of every other index
\* under the same secret, and it decodes and decrypts to its own index only.
C22_DistinctIndicesDistinctTokens ==
    (key.of # NoValue /\ ct.n >= 0) =>
        /\ \A m \in Plaintexts \ {ct.n} : urlencode(encrypt_int(secret, m)) # key.str
        /\ (decoded.called /\ result.called)
              => (decoded.r = Some(ct.bytes) /\ result.r \in {NoValue, Some(ct.n)})

\* C22 witness: the token of index 256, whose low byte is that of index 0,
\* was made, decoded, and decrypted to 256.
C22_Witness ==
    /\ key.of # NoValue
    /\ ct.n = 256
    /\ decoded.called
    /\ result.called
    /\ result.r = Some(256)
    /\ key.str # urlencode(encrypt_int(secret, 0))

\* C23: once the poll admin form has been saved with accepting_votes false,
\* no redemption through the voting form changes a count: while the poll
\* does not accept votes no step changes the count of an option.
C23_NoCountAfterClose ==
    [][~accepting_votes
          => \A o \in DOMAIN count \cap DOMAIN count' : count'[o] = count[o]]_vars

\* C24: the poll admin form never deletes an option whose count is nonzero
\* and never deletes an option while the poll accepts votes.
C24_CountedOptionsKept ==
    [][\A o \in DOMAIN count \ DOMAIN count' : count[o] = 0 /\ ~accepting_votes]_vars

====
